---------------------------- MODULE Spec2Model ----------------------------
(***************************************************************************)
(* Pump selection (src/project.py): boundary polygon construction, the     *)
(* point-in-polygon admissibility test, the performance estimator          *)
(* (diameter, efficiency, power) and the catalog scan.                      *)
(*                                                                         *)
(* Representation.                                                         *)
(*   - A column name is a sequence of characters and a character is its  *)
(*     Unicode code point (Python's ord), so that lower(), strip(),        *)
(*     startswith() and the regular expressions of the source are computed *)
(*     character by character.  Text(<<"p", "_", "1">>) is the name 'p_1'. *)
(*   - An optional value (a CSV cell that may be missing, a result field   *)
(*     that may be None) is <<>> (missing / None) or <<v>>.                *)
(*   - A CSV file is [exists, parses, cols, rows]; rows is a sequence of   *)
(*     rows, each a sequence of cells, one per column.                     *)
(*   - A float is written as a rational [n, d], d > 0, and stands for the  *)
(*     double nearest to n / d.  The sample flows of the curves are        *)
(*     integers at distance 2 or 4, so the interpolants are dyadic and the *)
(*     binary floating point arithmetic of the source is exact on them.    *)
(*   - The cells are integers.  Within one curve table the non-missing     *)
(*     flows are pairwise distinct (a curve is sampled once per flow).  A  *)
(*     boundary table has no missing cell.  A file pandas cannot read as   *)
(*     such a table is a malformed file.                                   *)
(*   - scipy's griddata is not computed: each of its calls answers a       *)
(*     value, nan or an exception, drawn as an input and logged in calls.  *)
(***************************************************************************)
EXTENDS Integers, Sequences, FiniteSets, TLC

VARIABLES
    pc,             \* position in the function being run
    required_flow,  \* the requested flow (Q)
    required_head,  \* the requested head (H)
    df_curves,      \* get_performance_details: the Head_Efficiency.csv table in scope
    flow_col_name,  \* get_performance_details: index of its flow column, 0 = None
    results,        \* get_performance_details: {"diameter", "efficiency", "power"}
    points,         \* get_performance_details: the pooled efficiency samples
    est_eff,        \* get_performance_details: the last value griddata returned
    calls,          \* the griddata calls made so far, in order, with their answers
    raised,         \* the section of get_performance_details whose exception was caught
    power_csv,      \* get_performance_details: the Power.csv of the pump
    boundary_file,  \* get_pump_boundary_polygon: the Pump_boundary.csv being read
    pump_polygon,   \* the value get_pump_boundary_polygon returned
    inside,         \* the value contains_point returned
    catalog,        \* find_suitable_pumps: available_pumps, the pump directory names
    idx,            \* find_suitable_pumps: the loop position in available_pumps
    final_results   \* find_suitable_pumps: final_results

vars == <<pc, required_flow, required_head, df_curves, flow_col_name, results,
          points, est_eff, calls, raised, power_csv, boundary_file, pump_polygon,
          inside, catalog, idx, final_results>>

---------------------------------------------------------------------------
(* Bounds of the model. *)

\* cells of a table and requested heads range over 0..MaxVal
MaxVal == 2
\* longest catalog scanned
MaxPumps == 2

---------------------------------------------------------------------------
(* Constants of the program. *)

\* fewest pooled samples for which griddata is called (line 92)
MinPooledPoints == 4
\* fewest samples of a curve that is interpolated (lines 71 and 113)
MinCurveSamples == 2
\* fewest vertices of a boundary polygon (line 44)
MinVertices == 3

---------------------------------------------------------------------------
(* Optional values and small helpers. *)

None == <<>>
Some(v) == <<v>>
IsNone(o) == o = <<>>
Get(o) == o[1]

Range(s) == {s[i] : i \in 1..Len(s)}

RECURSIVE Pow10(_)
Pow10(k) == IF k = 0 THEN 1 ELSE 10 * Pow10(k - 1)

---------------------------------------------------------------------------
(* Strings: str.lower, str.strip, str.startswith, re.search(r'\d+'). *)

\* the ASCII characters from code point 32 (space) to 95 (underscore)
Printable ==
    <<" ", "!", "\"", "#", "$", "%", "&", "'", "(", ")", "*", "+", ",", "-", ".", "/",
      "0", "1", "2", "3", "4", "5", "6", "7", "8", "9", ":", ";", "<", "=", ">", "?",
      "@", "A", "B", "C", "D", "E", "F", "G", "H", "I", "J", "K", "L", "M", "N", "O",
      "P", "Q", "R", "S", "T", "U", "V", "W", "X", "Y", "Z", "[", "\\", "]", "^", "_">>
\* the ASCII letters from code point 97 (a) to 122 (z)
Letters ==
    <<"a", "b", "c", "d", "e", "f", "g", "h", "i", "j", "k", "l", "m",
      "n", "o", "p", "q", "r", "s", "t", "u", "v", "w", "x", "y", "z">>

\* ord(c) of one of these characters
Ord(c) ==
    IF \E i \in 1..Len(Letters) : Letters[i] = c
    THEN 96 + (CHOOSE i \in 1..Len(Letters) : Letters[i] = c)
    ELSE 31 + (CHOOSE i \in 1..Len(Printable) : Printable[i] = c)

\* a str literal of the source, as the sequence of its code points
Text(s) == [i \in 1..Len(s) |-> Ord(s[i])]

\* the str literals of the source
FlowNames == {Text(<<"f","l","o","w">>), Text(<<"x">>)}
XName == Text(<<"x">>)
PhiPrefix == Text(<<"p","h","i","_">>)
EffPrefix == Text(<<"e","f","f","_">>)
PowerPrefix == Text(<<"p","_">>)
Dot == Ord(".")
Zero == Ord("0")

\* the characters str.strip() removes (str.isspace()): U+0009-000D, U+001C-0020,
\* U+0085, U+00A0, U+1680, U+2000-200A, U+2028, U+2029, U+202F, U+205F, U+3000
Whitespace ==
    (9..13) \cup (28..32) \cup {133, 160, 5760} \cup (8192..8202)
    \cup {8232, 8233, 8239, 8287, 12288}

\* The decimal digits of Unicode (category Nd), which \d of a str pattern
\* matches and int() and float() read: 66 runs of ten consecutive code points
\* with the values 0..9, each given by the code point of its zero.
DigitZeros ==
    { 48, 1632, 1776, 1984, 2406, 2534, 2662, 2790, 2918, 3046, 3174, 3302,
      3430, 3558, 3664, 3792, 3872, 4160, 4240, 6112, 6160, 6470, 6608,
      6784, 6800, 6992, 7088, 7232, 7248, 42528, 43216, 43264, 43472, 43504,
      43600, 44016, 65296, 66720, 68912, 69734, 69872, 69942, 70096, 70384,
      70736, 70864, 71248, 71360, 71472, 71904, 72016, 72784, 73040, 73120,
      92768, 92864, 93008, 120782, 120792, 120802, 120812, 120822, 123200,
      123632, 125264, 130032 }

\* The lowercase mappings of Unicode outside ASCII: <<first, last, step, delta>>
\* maps the code points first, first + step, ..., last to themselves + delta.
LowerRuns ==
    {
      <<192,214,1,32>>, <<216,222,1,32>>, <<256,302,2,1>>, <<306,310,2,1>>,
      <<313,327,2,1>>, <<330,374,2,1>>, <<376,376,1,-121>>, <<377,381,2,1>>,
      <<385,385,1,210>>, <<386,388,2,1>>, <<390,390,1,206>>,
      <<391,391,1,1>>, <<393,394,1,205>>, <<395,395,1,1>>, <<398,398,1,79>>,
      <<399,399,1,202>>, <<400,400,1,203>>, <<401,401,1,1>>,
      <<403,403,1,205>>, <<404,404,1,207>>, <<406,406,1,211>>,
      <<407,407,1,209>>, <<408,408,1,1>>, <<412,412,1,211>>,
      <<413,413,1,213>>, <<415,415,1,214>>, <<416,420,2,1>>,
      <<422,422,1,218>>, <<423,423,1,1>>, <<425,425,1,218>>,
      <<428,428,1,1>>, <<430,430,1,218>>, <<431,431,1,1>>,
      <<433,434,1,217>>, <<435,437,2,1>>, <<439,439,1,219>>,
      <<440,440,1,1>>, <<444,444,1,1>>, <<452,452,1,2>>, <<453,453,1,1>>,
      <<455,455,1,2>>, <<456,456,1,1>>, <<458,458,1,2>>, <<459,475,2,1>>,
      <<478,494,2,1>>, <<497,497,1,2>>, <<498,500,2,1>>, <<502,502,1,-97>>,
      <<503,503,1,-56>>, <<504,542,2,1>>, <<544,544,1,-130>>,
      <<546,562,2,1>>, <<570,570,1,10795>>, <<571,571,1,1>>,
      <<573,573,1,-163>>, <<574,574,1,10792>>, <<577,577,1,1>>,
      <<579,579,1,-195>>, <<580,580,1,69>>, <<581,581,1,71>>,
      <<582,590,2,1>>, <<880,882,2,1>>, <<886,886,1,1>>, <<895,895,1,116>>,
      <<902,902,1,38>>, <<904,906,1,37>>, <<908,908,1,64>>,
      <<910,911,1,63>>, <<913,929,1,32>>, <<931,939,1,32>>, <<975,975,1,8>>,
      <<984,1006,2,1>>, <<1012,1012,1,-60>>, <<1015,1015,1,1>>,
      <<1017,1017,1,-7>>, <<1018,1018,1,1>>, <<1021,1023,1,-130>>,
      <<1024,1039,1,80>>, <<1040,1071,1,32>>, <<1120,1152,2,1>>,
      <<1162,1214,2,1>>, <<1216,1216,1,15>>, <<1217,1229,2,1>>,
      <<1232,1326,2,1>>, <<1329,1366,1,48>>, <<4256,4293,1,7264>>,
      <<4295,4295,1,7264>>, <<4301,4301,1,7264>>, <<5024,5103,1,38864>>,
      <<5104,5109,1,8>>, <<7312,7354,1,-3008>>, <<7357,7359,1,-3008>>,
      <<7680,7828,2,1>>, <<7838,7838,1,-7615>>, <<7840,7934,2,1>>,
      <<7944,7951,1,-8>>, <<7960,7965,1,-8>>, <<7976,7983,1,-8>>,
      <<7992,7999,1,-8>>, <<8008,8013,1,-8>>, <<8025,8031,2,-8>>,
      <<8040,8047,1,-8>>, <<8072,8079,1,-8>>, <<8088,8095,1,-8>>,
      <<8104,8111,1,-8>>, <<8120,8121,1,-8>>, <<8122,8123,1,-74>>,
      <<8124,8124,1,-9>>, <<8136,8139,1,-86>>, <<8140,8140,1,-9>>,
      <<8152,8153,1,-8>>, <<8154,8155,1,-100>>, <<8168,8169,1,-8>>,
      <<8170,8171,1,-112>>, <<8172,8172,1,-7>>, <<8184,8185,1,-128>>,
      <<8186,8187,1,-126>>, <<8188,8188,1,-9>>, <<8486,8486,1,-7517>>,
      <<8490,8490,1,-8383>>, <<8491,8491,1,-8262>>, <<8498,8498,1,28>>,
      <<8544,8559,1,16>>, <<8579,8579,1,1>>, <<9398,9423,1,26>>,
      <<11264,11311,1,48>>, <<11360,11360,1,1>>, <<11362,11362,1,-10743>>,
      <<11363,11363,1,-3814>>, <<11364,11364,1,-10727>>,
      <<11367,11371,2,1>>, <<11373,11373,1,-10780>>,
      <<11374,11374,1,-10749>>, <<11375,11375,1,-10783>>,
      <<11376,11376,1,-10782>>, <<11378,11378,1,1>>, <<11381,11381,1,1>>,
      <<11390,11391,1,-10815>>, <<11392,11490,2,1>>, <<11499,11501,2,1>>,
      <<11506,11506,1,1>>, <<42560,42604,2,1>>, <<42624,42650,2,1>>,
      <<42786,42798,2,1>>, <<42802,42862,2,1>>, <<42873,42875,2,1>>,
      <<42877,42877,1,-35332>>, <<42878,42886,2,1>>, <<42891,42891,1,1>>,
      <<42893,42893,1,-42280>>, <<42896,42898,2,1>>, <<42902,42920,2,1>>,
      <<42922,42922,1,-42308>>, <<42923,42923,1,-42319>>,
      <<42924,42924,1,-42315>>, <<42925,42925,1,-42305>>,
      <<42926,42926,1,-42308>>, <<42928,42928,1,-42258>>,
      <<42929,42929,1,-42282>>, <<42930,42930,1,-42261>>,
      <<42931,42931,1,928>>, <<42932,42946,2,1>>, <<42948,42948,1,-48>>,
      <<42949,42949,1,-42307>>, <<42950,42950,1,-35384>>,
      <<42951,42953,2,1>>, <<42960,42960,1,1>>, <<42966,42968,2,1>>,
      <<42997,42997,1,1>>, <<65313,65338,1,32>>, <<66560,66599,1,40>>,
      <<66736,66771,1,40>>, <<66928,66938,1,39>>, <<66940,66954,1,39>>,
      <<66956,66962,1,39>>, <<66964,66965,1,39>>, <<68736,68786,1,64>>,
      <<71840,71871,1,32>>, <<93760,93791,1,32>>, <<125184,125217,1,34>>
    }

\* The case-ignorable characters, as ranges <<first, last>>.
CaseIgnorableRanges ==
    {
      <<39,39>>, <<46,46>>, <<58,58>>, <<94,94>>, <<96,96>>, <<168,168>>,
      <<173,173>>, <<175,175>>, <<180,180>>, <<183,184>>, <<688,879>>,
      <<884,885>>, <<890,890>>, <<900,901>>, <<903,903>>, <<1155,1161>>,
      <<1369,1369>>, <<1375,1375>>, <<1425,1469>>, <<1471,1471>>,
      <<1473,1474>>, <<1476,1477>>, <<1479,1479>>, <<1524,1524>>,
      <<1536,1541>>, <<1552,1562>>, <<1564,1564>>, <<1600,1600>>,
      <<1611,1631>>, <<1648,1648>>, <<1750,1757>>, <<1759,1768>>,
      <<1770,1773>>, <<1807,1807>>, <<1809,1809>>, <<1840,1866>>,
      <<1958,1968>>, <<2027,2037>>, <<2042,2042>>, <<2045,2045>>,
      <<2070,2093>>, <<2137,2139>>, <<2184,2184>>, <<2192,2193>>,
      <<2200,2207>>, <<2249,2306>>, <<2362,2362>>, <<2364,2364>>,
      <<2369,2376>>, <<2381,2381>>, <<2385,2391>>, <<2402,2403>>,
      <<2417,2417>>, <<2433,2433>>, <<2492,2492>>, <<2497,2500>>,
      <<2509,2509>>, <<2530,2531>>, <<2558,2558>>, <<2561,2562>>,
      <<2620,2620>>, <<2625,2626>>, <<2631,2632>>, <<2635,2637>>,
      <<2641,2641>>, <<2672,2673>>, <<2677,2677>>, <<2689,2690>>,
      <<2748,2748>>, <<2753,2757>>, <<2759,2760>>, <<2765,2765>>,
      <<2786,2787>>, <<2810,2815>>, <<2817,2817>>, <<2876,2876>>,
      <<2879,2879>>, <<2881,2884>>, <<2893,2893>>, <<2901,2902>>,
      <<2914,2915>>, <<2946,2946>>, <<3008,3008>>, <<3021,3021>>,
      <<3072,3072>>, <<3076,3076>>, <<3132,3132>>, <<3134,3136>>,
      <<3142,3144>>, <<3146,3149>>, <<3157,3158>>, <<3170,3171>>,
      <<3201,3201>>, <<3260,3260>>, <<3263,3263>>, <<3270,3270>>,
      <<3276,3277>>, <<3298,3299>>, <<3328,3329>>, <<3387,3388>>,
      <<3393,3396>>, <<3405,3405>>, <<3426,3427>>, <<3457,3457>>,
      <<3530,3530>>, <<3538,3540>>, <<3542,3542>>, <<3633,3633>>,
      <<3636,3642>>, <<3654,3662>>, <<3761,3761>>, <<3764,3772>>,
      <<3782,3782>>, <<3784,3789>>, <<3864,3865>>, <<3893,3893>>,
      <<3895,3895>>, <<3897,3897>>, <<3953,3966>>, <<3968,3972>>,
      <<3974,3975>>, <<3981,3991>>, <<3993,4028>>, <<4038,4038>>,
      <<4141,4144>>, <<4146,4151>>, <<4153,4154>>, <<4157,4158>>,
      <<4184,4185>>, <<4190,4192>>, <<4209,4212>>, <<4226,4226>>,
      <<4229,4230>>, <<4237,4237>>, <<4253,4253>>, <<4348,4348>>,
      <<4957,4959>>, <<5906,5908>>, <<5938,5939>>, <<5970,5971>>,
      <<6002,6003>>, <<6068,6069>>, <<6071,6077>>, <<6086,6086>>,
      <<6089,6099>>, <<6103,6103>>, <<6109,6109>>, <<6155,6159>>,
      <<6211,6211>>, <<6277,6278>>, <<6313,6313>>, <<6432,6434>>,
      <<6439,6440>>, <<6450,6450>>, <<6457,6459>>, <<6679,6680>>,
      <<6683,6683>>, <<6742,6742>>, <<6744,6750>>, <<6752,6752>>,
      <<6754,6754>>, <<6757,6764>>, <<6771,6780>>, <<6783,6783>>,
      <<6823,6823>>, <<6832,6862>>, <<6912,6915>>, <<6964,6964>>,
      <<6966,6970>>, <<6972,6972>>, <<6978,6978>>, <<7019,7027>>,
      <<7040,7041>>, <<7074,7077>>, <<7080,7081>>, <<7083,7085>>,
      <<7142,7142>>, <<7144,7145>>, <<7149,7149>>, <<7151,7153>>,
      <<7212,7219>>, <<7222,7223>>, <<7288,7293>>, <<7376,7378>>,
      <<7380,7392>>, <<7394,7400>>, <<7405,7405>>, <<7412,7412>>,
      <<7416,7417>>, <<7468,7530>>, <<7544,7544>>, <<7579,7679>>,
      <<8125,8125>>, <<8127,8129>>, <<8141,8143>>, <<8157,8159>>,
      <<8173,8175>>, <<8189,8190>>, <<8203,8207>>, <<8216,8217>>,
      <<8228,8228>>, <<8231,8231>>, <<8234,8238>>, <<8288,8292>>,
      <<8294,8303>>, <<8305,8305>>, <<8319,8319>>, <<8336,8348>>,
      <<8400,8432>>, <<11388,11389>>, <<11503,11505>>, <<11631,11631>>,
      <<11647,11647>>, <<11744,11775>>, <<11823,11823>>, <<12293,12293>>,
      <<12330,12333>>, <<12337,12341>>, <<12347,12347>>, <<12441,12446>>,
      <<12540,12542>>, <<40981,40981>>, <<42232,42237>>, <<42508,42508>>,
      <<42607,42610>>, <<42612,42621>>, <<42623,42623>>, <<42652,42655>>,
      <<42736,42737>>, <<42752,42785>>, <<42864,42864>>, <<42888,42890>>,
      <<42994,42996>>, <<43000,43001>>, <<43010,43010>>, <<43014,43014>>,
      <<43019,43019>>, <<43045,43046>>, <<43052,43052>>, <<43204,43205>>,
      <<43232,43249>>, <<43263,43263>>, <<43302,43309>>, <<43335,43345>>,
      <<43392,43394>>, <<43443,43443>>, <<43446,43449>>, <<43452,43453>>,
      <<43471,43471>>, <<43493,43494>>, <<43561,43566>>, <<43569,43570>>,
      <<43573,43574>>, <<43587,43587>>, <<43596,43596>>, <<43632,43632>>,
      <<43644,43644>>, <<43696,43696>>, <<43698,43700>>, <<43703,43704>>,
      <<43710,43711>>, <<43713,43713>>, <<43741,43741>>, <<43756,43757>>,
      <<43763,43764>>, <<43766,43766>>, <<43867,43871>>, <<43881,43883>>,
      <<44005,44005>>, <<44008,44008>>, <<44013,44013>>, <<64286,64286>>,
      <<64434,64450>>, <<65024,65039>>, <<65043,65043>>, <<65056,65071>>,
      <<65106,65106>>, <<65109,65109>>, <<65279,65279>>, <<65287,65287>>,
      <<65294,65294>>, <<65306,65306>>, <<65342,65342>>, <<65344,65344>>,
      <<65392,65392>>, <<65438,65439>>, <<65507,65507>>, <<65529,65531>>,
      <<66045,66045>>, <<66272,66272>>, <<66422,66426>>, <<67456,67461>>,
      <<67463,67504>>, <<67506,67514>>, <<68097,68099>>, <<68101,68102>>,
      <<68108,68111>>, <<68152,68154>>, <<68159,68159>>, <<68325,68326>>,
      <<68900,68903>>, <<69291,69292>>, <<69446,69456>>, <<69506,69509>>,
      <<69633,69633>>, <<69688,69702>>, <<69744,69744>>, <<69747,69748>>,
      <<69759,69761>>, <<69811,69814>>, <<69817,69818>>, <<69821,69821>>,
      <<69826,69826>>, <<69837,69837>>, <<69888,69890>>, <<69927,69931>>,
      <<69933,69940>>, <<70003,70003>>, <<70016,70017>>, <<70070,70078>>,
      <<70089,70092>>, <<70095,70095>>, <<70191,70193>>, <<70196,70196>>,
      <<70198,70199>>, <<70206,70206>>, <<70367,70367>>, <<70371,70378>>,
      <<70400,70401>>, <<70459,70460>>, <<70464,70464>>, <<70502,70508>>,
      <<70512,70516>>, <<70712,70719>>, <<70722,70724>>, <<70726,70726>>,
      <<70750,70750>>, <<70835,70840>>, <<70842,70842>>, <<70847,70848>>,
      <<70850,70851>>, <<71090,71093>>, <<71100,71101>>, <<71103,71104>>,
      <<71132,71133>>, <<71219,71226>>, <<71229,71229>>, <<71231,71232>>,
      <<71339,71339>>, <<71341,71341>>, <<71344,71349>>, <<71351,71351>>,
      <<71453,71455>>, <<71458,71461>>, <<71463,71467>>, <<71727,71735>>,
      <<71737,71738>>, <<71995,71996>>, <<71998,71998>>, <<72003,72003>>,
      <<72148,72151>>, <<72154,72155>>, <<72160,72160>>, <<72193,72202>>,
      <<72243,72248>>, <<72251,72254>>, <<72263,72263>>, <<72273,72278>>,
      <<72281,72283>>, <<72330,72342>>, <<72344,72345>>, <<72752,72758>>,
      <<72760,72765>>, <<72767,72767>>, <<72850,72871>>, <<72874,72880>>,
      <<72882,72883>>, <<72885,72886>>, <<73009,73014>>, <<73018,73018>>,
      <<73020,73021>>, <<73023,73029>>, <<73031,73031>>, <<73104,73105>>,
      <<73109,73109>>, <<73111,73111>>, <<73459,73460>>, <<78896,78904>>,
      <<92912,92916>>, <<92976,92982>>, <<92992,92995>>, <<94031,94031>>,
      <<94095,94111>>, <<94176,94177>>, <<94179,94180>>, <<110576,110579>>,
      <<110581,110587>>, <<110589,110590>>, <<113821,113822>>,
      <<113824,113827>>, <<118528,118573>>, <<118576,118598>>,
      <<119143,119145>>, <<119155,119170>>, <<119173,119179>>,
      <<119210,119213>>, <<119362,119364>>, <<121344,121398>>,
      <<121403,121452>>, <<121461,121461>>, <<121476,121476>>,
      <<121499,121503>>, <<121505,121519>>, <<122880,122886>>,
      <<122888,122904>>, <<122907,122913>>, <<122915,122916>>,
      <<122918,122922>>, <<123184,123197>>, <<123566,123566>>,
      <<123628,123631>>, <<125136,125142>>, <<125252,125259>>,
      <<127995,127999>>, <<917505,917505>>, <<917536,917631>>,
      <<917760,917999>>
    }

\* The cased characters that are not case-ignorable, as ranges <<first, last>>
\* (str.lower() asks whether a character is cased only of such characters).
CasedRanges ==
    {
      <<65,90>>, <<97,122>>, <<170,170>>, <<181,181>>, <<186,186>>,
      <<192,214>>, <<216,246>>, <<248,442>>, <<444,447>>, <<452,659>>,
      <<661,687>>, <<880,883>>, <<886,887>>, <<891,893>>, <<895,895>>,
      <<902,902>>, <<904,906>>, <<908,908>>, <<910,929>>, <<931,1013>>,
      <<1015,1153>>, <<1162,1327>>, <<1329,1366>>, <<1376,1416>>,
      <<4256,4293>>, <<4295,4295>>, <<4301,4301>>, <<4304,4346>>,
      <<4349,4351>>, <<5024,5109>>, <<5112,5117>>, <<7296,7304>>,
      <<7312,7354>>, <<7357,7359>>, <<7424,7467>>, <<7531,7543>>,
      <<7545,7578>>, <<7680,7957>>, <<7960,7965>>, <<7968,8005>>,
      <<8008,8013>>, <<8016,8023>>, <<8025,8025>>, <<8027,8027>>,
      <<8029,8029>>, <<8031,8061>>, <<8064,8116>>, <<8118,8124>>,
      <<8126,8126>>, <<8130,8132>>, <<8134,8140>>, <<8144,8147>>,
      <<8150,8155>>, <<8160,8172>>, <<8178,8180>>, <<8182,8188>>,
      <<8450,8450>>, <<8455,8455>>, <<8458,8467>>, <<8469,8469>>,
      <<8473,8477>>, <<8484,8484>>, <<8486,8486>>, <<8488,8488>>,
      <<8490,8493>>, <<8495,8500>>, <<8505,8505>>, <<8508,8511>>,
      <<8517,8521>>, <<8526,8526>>, <<8544,8575>>, <<8579,8580>>,
      <<9398,9449>>, <<11264,11387>>, <<11390,11492>>, <<11499,11502>>,
      <<11506,11507>>, <<11520,11557>>, <<11559,11559>>, <<11565,11565>>,
      <<42560,42605>>, <<42624,42651>>, <<42786,42863>>, <<42865,42887>>,
      <<42891,42894>>, <<42896,42954>>, <<42960,42961>>, <<42963,42963>>,
      <<42965,42969>>, <<42997,42998>>, <<43002,43002>>, <<43824,43866>>,
      <<43872,43880>>, <<43888,43967>>, <<64256,64262>>, <<64275,64279>>,
      <<65313,65338>>, <<65345,65370>>, <<66560,66639>>, <<66736,66771>>,
      <<66776,66811>>, <<66928,66938>>, <<66940,66954>>, <<66956,66962>>,
      <<66964,66965>>, <<66967,66977>>, <<66979,66993>>, <<66995,67001>>,
      <<67003,67004>>, <<68736,68786>>, <<68800,68850>>, <<71840,71903>>,
      <<93760,93823>>, <<119808,119892>>, <<119894,119964>>,
      <<119966,119967>>, <<119970,119970>>, <<119973,119974>>,
      <<119977,119980>>, <<119982,119993>>, <<119995,119995>>,
      <<119997,120003>>, <<120005,120069>>, <<120071,120074>>,
      <<120077,120084>>, <<120086,120092>>, <<120094,120121>>,
      <<120123,120126>>, <<120128,120132>>, <<120134,120134>>,
      <<120138,120144>>, <<120146,120485>>, <<120488,120512>>,
      <<120514,120538>>, <<120540,120570>>, <<120572,120596>>,
      <<120598,120628>>, <<120630,120654>>, <<120656,120686>>,
      <<120688,120712>>, <<120714,120744>>, <<120746,120770>>,
      <<120772,120779>>, <<122624,122633>>, <<122635,122654>>,
      <<125184,125251>>, <<127280,127305>>, <<127312,127337>>,
      <<127344,127369>>
    }

InRun(c, r) == r[1] <= c /\ c <= r[2] /\ (c - r[1]) % r[3] = 0
IsCaseIgnorable(c) == \E r \in CaseIgnorableRanges : r[1] <= c /\ c <= r[2]
IsCased(c) == \E r \in CasedRanges : r[1] <= c /\ c <= r[2]

\* the lowercase of one character that has a one-character lowercase
LowerChar(c) ==
    IF c < 128 THEN (IF c \in 65..90 THEN c + 32 ELSE c)
    ELSE LET hit == {r \in LowerRuns : InRun(c, r)}
         IN  IF hit = {} THEN c ELSE c + (CHOOSE r \in hit : TRUE)[4]

\* The lowercase of the capital sigma s[i]: the final sigma U+03C2 when the
\* nearest character before it that is not case-ignorable is cased and the
\* nearest such character after it, if any, is not; else U+03C3.
HandleCapitalSigma(s, i) ==
    LET before == {j \in 1..(i - 1) : ~IsCaseIgnorable(s[j])}
        after  == {j \in (i + 1)..Len(s) : ~IsCaseIgnorable(s[j])}
        prev   == CHOOSE j \in before : \A k \in before : k <= j
        next   == CHOOSE j \in after : \A k \in after : j <= k
    IN  IF /\ before # {} /\ IsCased(s[prev])
           /\ (after = {} \/ ~IsCased(s[next]))
        THEN 962 ELSE 963

\* the lowercase of s[i]: U+0130 gives two characters, i and U+0307
LowerAt(s, i) ==
    IF s[i] = 931 THEN <<HandleCapitalSigma(s, i)>>
    ELSE IF s[i] = 304 THEN <<105, 775>>
    ELSE <<LowerChar(s[i])>>

\* str.lower()
RECURSIVE LowerFrom(_, _)
LowerFrom(s, i) == IF i > Len(s) THEN <<>> ELSE LowerAt(s, i) \o LowerFrom(s, i + 1)
Lower(s) == LowerFrom(s, 1)

\* str.strip()
Strip(s) ==
    LET keep == {i \in 1..Len(s) : s[i] \notin Whitespace}
    IN  IF keep = {} THEN <<>>
        ELSE LET lo == CHOOSE i \in keep : \A j \in keep : i <= j
                 hi == CHOOSE i \in keep : \A j \in keep : j <= i
             IN  SubSeq(s, lo, hi)

\* str.startswith(p)
StartsWith(s, p) == Len(s) >= Len(p) /\ SubSeq(s, 1, Len(p)) = p

\* re: \d matches c
IsDigit(c) ==
    IF c < 128 THEN c \in 48..57 ELSE \E z \in DigitZeros : z <= c /\ c <= z + 9
\* the value int() gives the digit c
DigitVal(c) ==
    IF c < 128 THEN c - 48 ELSE c - (CHOOSE z \in DigitZeros : z <= c /\ c <= z + 9)

\* int("...") of a string of digits
RECURSIVE ParseInt(_)
ParseInt(ds) ==
    IF ds = <<>> THEN 0
    ELSE 10 * ParseInt(SubSeq(ds, 1, Len(ds) - 1)) + DigitVal(ds[Len(ds)])

\* the end of the run of digits that starts at position i
RECURSIVE DigitRunEnd(_, _)
DigitRunEnd(s, i) ==
    IF i < Len(s) /\ IsDigit(s[i + 1]) THEN DigitRunEnd(s, i + 1) ELSE i

\* re.search(r'\d+', s): None, or the leftmost longest run of digits
SearchDigits(s) ==
    LET at == {i \in 1..Len(s) : IsDigit(s[i])}
    IN  IF at = {} THEN None
        ELSE LET b == CHOOSE i \in at : \A j \in at : i <= j
             IN  Some(SubSeq(s, b, DigitRunEnd(s, b)))

\* re.search(r'(\d+\.?\d*)', s): None, or <<integer digits, fraction digits>>
SearchDecimal(s) ==
    LET at == {i \in 1..Len(s) : IsDigit(s[i])}
    IN  IF at = {} THEN None
        ELSE LET b == CHOOSE i \in at : \A j \in at : i <= j
                 e == DigitRunEnd(s, b)
             IN  IF e < Len(s) /\ s[e + 1] = Dot
                 THEN Some(<<SubSeq(s, b, e), SubSeq(s, e + 2, DigitRunEnd(s, e + 1))>>)
                 ELSE Some(<<SubSeq(s, b, e), <<>> >>)

\* str(int): the decimal digits (ASCII) of a natural number
RECURSIVE IntToStr(_)
IntToStr(n) ==
    IF n < 10 THEN <<Zero + n>>
    ELSE Append(IntToStr(n \div 10), Zero + (n % 10))

---------------------------------------------------------------------------
(* Rationals [n, d] with d > 0. *)

Rat(a, b) == [n |-> a, d |-> b]
RatGeq(a, b) == a.n * b.d >= b.n * a.d
RatLess(a, b) == a.n * b.d < b.n * a.d
RatSub(a, b) == Rat(a.n * b.d - b.n * a.d, a.d * b.d)

\* The doubles.  A double has 53 significant bits; Rat(a, b) stands for the
\* double nearest to a / b, which is a / b itself when a / b is dyadic.

\* b without its factors 2
RECURSIVE OddPart(_)
OddPart(b) == IF b % 2 = 0 THEN OddPart(b \div 2) ELSE b

\* a / b is a dyadic rational m / 2^k (of few bits: a double holds it exactly)
IsDyadic(a, b) == a % OddPart(b) = 0

\* floor(log2(a / b)) for a, b > 0
RECURSIVE Log2Floor(_, _)
Log2Floor(a, b) ==
    IF a < b THEN Log2Floor(2 * a, b) - 1
    ELSE IF a >= 2 * b THEN Log2Floor(a, 2 * b) + 1
    ELSE 0

\* 2^e mod b
RECURSIVE Pow2Mod(_, _)
Pow2Mod(e, b) == IF e = 0 THEN 1 % b ELSE (2 * Pow2Mod(e - 1, b)) % b

\* For a, b > 0 with a / b not dyadic: the double nearest to a / b is above
\* a / b.  With e such that 2^52 <= (a / b) * 2^e < 2^53, the double is
\* round(a * 2^e / b) / 2^e, above exactly when the remainder of a * 2^e by b
\* exceeds b / 2.
DoubleIsAbove(a, b) ==
    LET e == 52 - Log2Floor(a, b)
        r == ((a % b) * Pow2Mod(e, b)) % b
    IN  2 * r > b

\* round(float(v), 2), as an integer number of hundredths.  Python rounds the
\* exact value of the double, a tie to the even neighbour.  The double is on
\* the same side of every tie k + 1/2 hundredths as v.n / v.d, unless v.n / v.d
\* is that tie: then a dyadic tie is held exactly and goes to the even
\* neighbour, and any other tie goes where the double lies.
Round2(v) ==
    LET num == 100 * v.n
        fl  == num \div v.d
        rem == num - fl * v.d
    IN  IF 2 * rem < v.d THEN fl
        ELSE IF 2 * rem > v.d THEN fl + 1
        ELSE IF IsDyadic(v.n, v.d) THEN (IF fl % 2 = 0 THEN fl ELSE fl + 1)
        ELSE IF v.n > 0 THEN (IF DoubleIsAbove(v.n, v.d) THEN fl + 1 ELSE fl)
        ELSE (IF DoubleIsAbove(-v.n, v.d) THEN fl ELSE fl + 1)

---------------------------------------------------------------------------
(* Tables: column discovery, dropna, sort_values, interp1d. *)

\* next((col for col in df.columns if col.strip().lower() in ['flow', 'x']), None):
\* the index of the first such column, 0 for None
FlowColName(cols) ==
    LET hit == {i \in 1..Len(cols) :
                    Lower(Strip(cols[i])) \in FlowNames}
    IN  IF hit = {} THEN 0 ELSE CHOOSE i \in hit : \A j \in hit : i <= j

\* df.dropna(subset=[flow_col_name])
DropnaSubset(df, fc) ==
    [df EXCEPT !.rows = SelectSeq(df.rows, LAMBDA r : ~IsNone(r[fc]))]

\* [col for col in df.columns if col.lower().startswith(prefix)], as column indices
RECURSIVE ColsFrom(_, _, _)
ColsFrom(cols, prefix, i) ==
    IF i > Len(cols) THEN <<>>
    ELSE (IF StartsWith(Lower(cols[i]), prefix) THEN <<i>> ELSE <<>>)
         \o ColsFrom(cols, prefix, i + 1)

PhiCols(df) == ColsFrom(df.cols, PhiPrefix, 1)
EffCols(df) == ColsFrom(df.cols, EffPrefix, 1)

\* df[[flow_col, col]].dropna(): the rows where both cells are present, as
\* <<flow, value>> pairs in row order
CurveDf(df, fc, c) ==
    LET both == SelectSeq(df.rows, LAMBDA r : ~IsNone(r[fc]) /\ ~IsNone(r[c]))
    IN  [i \in 1..Len(both) |-> <<Get(both[i][fc]), Get(both[i][c])>>]

\* .sort_values(by=flow_col): ascending by flow
RECURSIVE SortValues(_)
SortValues(ps) ==
    IF ps = <<>> THEN <<>>
    ELSE LET m == CHOOSE i \in 1..Len(ps) :
                      /\ \A j \in 1..Len(ps) : ps[i][1] <= ps[j][1]
                      /\ \A j \in 1..(i - 1) : ps[j][1] # ps[i][1]
         IN  <<ps[m]>> \o SortValues(SubSeq(ps, 1, m - 1) \o SubSeq(ps, m + 1, Len(ps)))

\* numpy.searchsorted(x, q) (side='left'): how many samples lie strictly below q
SearchSorted(curve, q) == Cardinality({i \in 1..Len(curve) : curve[i][1] < q})

\* interp1d(x, y, bounds_error=False, fill_value="extrapolate")(q) on a sorted
\* curve of at least 2 samples: linear on the segment around q, the first or the
\* last segment continued outside the sampled range
Interp1d(curve, q) ==
    LET k0 == SearchSorted(curve, q)
        k  == IF k0 < 1 THEN 1 ELSE IF k0 > Len(curve) - 1 THEN Len(curve) - 1 ELSE k0
        lo == curve[k]
        hi == curve[k + 1]
    IN  Rat((hi[2] - lo[2]) * (q - lo[1]) + lo[2] * (hi[1] - lo[1]), hi[1] - lo[1])

---------------------------------------------------------------------------
(* Diameter selection (src/project.py 65-79). *)

\* curve_df of one phi_ column
PhiCurve(df, fc, c) == SortValues(CurveDf(df, fc, c))

\* head_on_curve of a phi_ column with at least 2 samples
HeadOnCurve(df, fc, c, q) == Interp1d(PhiCurve(df, fc, c), q)

\* the comparison of line 74 turned around (head_on_curve <= required_head)
IsCandidate_Below(head_on_curve, h) == RatGeq(Rat(h, 1), head_on_curve)

\* line 74: if head_on_curve >= required_head
IsCandidate(head_on_curve, h) == RatGeq(head_on_curve, Rat(h, 1))

\* the loop over phi_cols: curves_above, or the exception of
\* re.search(r'\d+', col_name).group() on a name without digits
RECURSIVE CurvesAbove(_, _, _, _, _, _)
CurvesAbove(df, fc, cols, q, h, acc) ==
    IF cols = <<>> THEN [raised |-> FALSE, list |-> acc]
    ELSE LET c == Head(cols)
         IN  IF Len(PhiCurve(df, fc, c)) < MinCurveSamples
             THEN CurvesAbove(df, fc, Tail(cols), q, h, acc)
             ELSE LET head_on_curve == HeadOnCurve(df, fc, c, q)
                  IN  IF IsCandidate(head_on_curve, h)
                      THEN LET m == SearchDigits(df.cols[c])
                           IN  IF IsNone(m)
                               THEN [raised |-> TRUE, list |-> acc]
                               ELSE CurvesAbove(df, fc, Tail(cols), q, h,
                                        Append(acc,
                                          [diameter |-> ParseInt(Get(m)),
                                           distance |-> RatSub(head_on_curve, Rat(h, 1))]))
                      ELSE CurvesAbove(df, fc, Tail(cols), q, h, acc)

\* min(curves_above, key=lambda x: x['distance']): the first entry of least distance
MinByDistance(list) ==
    list[CHOOSE i \in 1..Len(list) :
            /\ \A j \in 1..Len(list) : ~RatLess(list[j].distance, list[i].distance)
            /\ \A j \in 1..(i - 1) : RatLess(list[i].distance, list[j].distance)]

\* lines 65-79: [raised, diameter]
SelectDiameter(df, fc, q, h) ==
    IF PhiCols(df) = <<>> THEN [raised |-> FALSE, diameter |-> None]
    ELSE LET ca == CurvesAbove(df, fc, PhiCols(df), q, h, <<>>)
         IN  IF ca.raised THEN [raised |-> TRUE, diameter |-> None]
             ELSE IF ca.list = <<>> THEN [raised |-> FALSE, diameter |-> None]
             ELSE [raised |-> FALSE, diameter |-> Some(MinByDistance(ca.list).diameter)]

---------------------------------------------------------------------------
(* Efficiency estimation (src/project.py 82-95). *)

\* float(re.search(r'(\d+\.?\d*)', col_name).group()) of a match
DecimalValue(m) == Rat(ParseInt(m[1] \o m[2]), Pow10(Len(m[2])))

\* the loop over eff_cols: the pooled points and values, or the exception of
\* re.search(...).group() on a name without digits
RECURSIVE PoolPoints(_, _, _, _)
PoolPoints(df, fc, cols, acc) ==
    IF cols = <<>> THEN [raised |-> FALSE, points |-> acc.points, values |-> acc.values]
    ELSE LET c == Head(cols)
             m == SearchDecimal(df.cols[c])
         IN  IF IsNone(m)
             THEN [raised |-> TRUE, points |-> acc.points, values |-> acc.values]
             ELSE LET curve_df == CurveDf(df, fc, c)
                      efficiency_val == DecimalValue(Get(m))
                  IN  PoolPoints(df, fc, Tail(cols),
                        [points |-> acc.points \o curve_df,
                         values |-> acc.values \o
                                    [i \in 1..Len(curve_df) |-> efficiency_val]])

Pooled(df, fc) == PoolPoints(df, fc, EffCols(df), [points |-> <<>>, values |-> <<>>])

\* What one call of scipy's griddata can answer: a value, nan (the point is
\* outside the region the method covers) or an exception (a degenerate point
\* set).  The triangulation is scipy's; the model takes its answer as an input.
\* (0.125 is a tie of round(.., 2) a double holds, 2.675 one it does not; 50
\* and 60.5 are efficiencies of the sampled curves)
GridValues == {Rat(0, 1), Rat(1, 8), Rat(107, 40), Rat(50, 1), Rat(101, 2), Rat(121, 2)}
GridOutcomes == {[k |-> "nan"], [k |-> "raise"]} \cup {[k |-> "val", v |-> v] : v \in GridValues}

\* line 95: if not np.isnan(est_eff): results['efficiency'] = round(float(est_eff), 2)
StoreEfficiency(out) == IF out.k = "val" THEN Some(Round2(out.v)) ELSE None

\* lines 92-95 given the answers of the cubic and of the linear call:
\* [raised, efficiency, calls]
Interpolate(npoints, cubic, linear) ==
    IF npoints < MinPooledPoints
    THEN [raised |-> FALSE, efficiency |-> None, calls |-> <<>>]
    ELSE IF cubic.k = "raise"
    THEN [raised |-> TRUE, efficiency |-> None, calls |-> <<"cubic">>]
    ELSE IF cubic.k = "val"
    THEN [raised |-> FALSE, efficiency |-> StoreEfficiency(cubic), calls |-> <<"cubic">>]
    ELSE IF linear.k = "raise"
    THEN [raised |-> TRUE, efficiency |-> None, calls |-> <<"cubic", "linear">>]
    ELSE [raised |-> FALSE, efficiency |-> StoreEfficiency(linear),
          calls |-> <<"cubic", "linear">>]

\* lines 82-95
EstimateEfficiency(df, fc, cubic, linear) ==
    IF EffCols(df) = <<>> THEN [raised |-> FALSE, efficiency |-> None, calls |-> <<>>]
    ELSE LET pool == Pooled(df, fc)
         IN  IF pool.raised THEN [raised |-> TRUE, efficiency |-> None, calls |-> <<>>]
             ELSE Interpolate(Len(pool.points), cubic, linear)

---------------------------------------------------------------------------
(* Power estimation (src/project.py 101-118). *)

\* the truth value of results.get("diameter"): None and 0 are false
Truthy(o) == ~IsNone(o) /\ Get(o) # 0

\* f"p_{selected_diameter}"
PowerColPattern(d) == PowerPrefix \o IntToStr(d)

\* next((col for col in df_power.columns if col.strip().lower() == pattern), None)
TargetPowerCol(cols, d) ==
    LET hit == {i \in 1..Len(cols) : Lower(Strip(cols[i])) = PowerColPattern(d)}
    IN  IF hit = {} THEN 0 ELSE CHOOSE i \in hit : \A j \in hit : i <= j

\* lines 101-118: [attempted, raised, power]
EstimatePower(diameter, file, q) ==
    IF ~(Truthy(diameter) /\ file.exists)
    THEN [attempted |-> FALSE, raised |-> FALSE, power |-> None]
    ELSE IF ~file.parses
    THEN [attempted |-> TRUE, raised |-> TRUE, power |-> None]
    ELSE LET power_flow_col == FlowColName(file.cols)
             target_power_col == TargetPowerCol(file.cols, Get(diameter))
         IN  IF power_flow_col = 0 \/ target_power_col = 0
             THEN [attempted |-> TRUE, raised |-> FALSE, power |-> None]
             ELSE LET power_curve_df ==
                          SortValues(CurveDf(file, power_flow_col, target_power_col))
                  IN  IF Len(power_curve_df) >= MinCurveSamples
                      THEN [attempted |-> TRUE, raised |-> FALSE,
                            power |-> Some(Round2(Interp1d(power_curve_df, q)))]
                      ELSE [attempted |-> TRUE, raised |-> FALSE, power |-> None]

---------------------------------------------------------------------------
(* get_performance_details as one function (src/project.py 50-120). *)

NoResults == [diameter |-> None, efficiency |-> None, power |-> None]

\* lines 57-98: the fields set from Head_Efficiency.csv
CurvesBlock(file, q, h, cubic, linear) ==
    IF ~file.exists \/ ~file.parses \/ FlowColName(file.cols) = 0 THEN NoResults
    ELSE LET fc  == FlowColName(file.cols)
             df  == DropnaSubset(file, fc)
             dia == SelectDiameter(df, fc, q, h)
         IN  IF dia.raised THEN NoResults
             ELSE [NoResults EXCEPT !.diameter = dia.diameter,
                                    !.efficiency = EstimateEfficiency(df, fc, cubic, linear).efficiency]

GetPerformanceDetails(curves_file, power_file, q, h, cubic, linear) ==
    LET r == CurvesBlock(curves_file, q, h, cubic, linear)
    IN  [r EXCEPT !.power = EstimatePower(r.diameter, power_file, q).power]

---------------------------------------------------------------------------
(* Boundary polygon (src/project.py 20-47) and the admissibility test. *)

\* df[curve_cols].max(axis=1) / .min(axis=1) of one row
RowMax(row, cs) == CHOOSE v \in {Get(row[c]) : c \in cs} : \A c \in cs : Get(row[c]) <= v
RowMin(row, cs) == CHOOSE v \in {Get(row[c]) : c \in cs} : \A c \in cs : v <= Get(row[c])

\* lower_b left in row order (the reverse() of line 41 forgotten)
Reverse_Forgotten(s) == s

\* list.reverse()
Reverse(s) == [i \in 1..Len(s) |-> s[Len(s) + 1 - i]]

\* lines 32-44 on a table that was read: [raised, polygon]
BuildVertices(df) ==
    LET xs == {i \in 1..Len(df.cols) : df.cols[i] = XName}
        curve_cols == {i \in 1..Len(df.cols) : Lower(df.cols[i]) # XName}
    IN  IF xs = {} \/ curve_cols = {} THEN None
        ELSE LET x == CHOOSE i \in xs : TRUE
                 upper_b == [i \in 1..Len(df.rows) |->
                                <<Get(df.rows[i][x]), RowMax(df.rows[i], curve_cols)>>]
                 lower_b == [i \in 1..Len(df.rows) |->
                                <<Get(df.rows[i][x]), RowMin(df.rows[i], curve_cols)>>]
                 vertices == upper_b \o Reverse(lower_b)
             IN  IF Len(vertices) >= MinVertices THEN Some(vertices) ELSE None

\* get_pump_boundary_polygon without its try/except: a malformed file raises
GetPumpBoundaryPolygon_NoExcept(file) ==
    IF ~file.exists THEN [raised |-> FALSE, polygon |-> None]
    ELSE IF ~file.parses THEN [raised |-> TRUE, polygon |-> None]
    ELSE [raised |-> FALSE, polygon |-> BuildVertices(file)]

\* get_pump_boundary_polygon: [raised, polygon]; raised is the exception that
\* leaves the function, which the try/except of lines 26-47 never lets happen
GetPumpBoundaryPolygon(file) ==
    IF ~file.exists THEN [raised |-> FALSE, polygon |-> None]
    ELSE IF ~file.parses THEN [raised |-> FALSE, polygon |-> None]
    ELSE [raised |-> FALSE, polygon |-> BuildVertices(file)]

\* One edge of matplotlib's crossings test (point_in_path): the edge from a to b
\* toggles the flag when its ends lie on opposite sides of the horizontal line
\* through the point and the +X ray from the point meets it.
EdgeCrosses(a, b, tx, ty) ==
    LET yflag0 == a[2] >= ty
        yflag1 == b[2] >= ty
    IN  /\ yflag0 # yflag1
        /\ (((b[2] - ty) * (a[1] - b[1]) >= (b[1] - tx) * (a[2] - b[2])) <=> yflag1)

\* Path(vertices).contains_point((tx, ty)): the ring closed from the last vertex
\* to the first, inside when the number of crossing edges is odd
ContainsPoint(vertices, tx, ty) ==
    LET n == Len(vertices)
        crossing == {i \in 1..n : EdgeCrosses(vertices[i], vertices[(i % n) + 1], tx, ty)}
    IN  Cardinality(crossing) % 2 = 1

\* a pump without a polygon let through (not pump_polygon or ...)
Admissible_OrNoPolygon(polygon, tx, ty) ==
    IsNone(polygon) \/ ContainsPoint(Get(polygon), tx, ty)

\* line 133: pump_polygon and pump_polygon.contains_point((flow, head))
Admissible(polygon, tx, ty) == ~IsNone(polygon) /\ ContainsPoint(Get(polygon), tx, ty)

---------------------------------------------------------------------------
(* The inputs: files and requested points. *)

File(cols, rows) == [exists |-> TRUE, parses |-> TRUE, cols |-> cols, rows |-> rows]
\* os.path.exists(...) is false
MissingFile == [exists |-> FALSE, parses |-> FALSE, cols |-> <<>>, rows |-> <<>>]
\* pd.read_csv(...) raises, or a column holds text where numbers are needed
MalformedFile == [exists |-> TRUE, parses |-> FALSE, cols |-> <<>>, rows |-> <<>>]
\* no table has been read
NoTable == [exists |-> FALSE, parses |-> FALSE, cols |-> <<>>, rows |-> <<>>]

Cells == {None} \cup {Some(v) : v \in 0..MaxVal}
EdgeCells == {None, Some(0), Some(MaxVal)}
EffCells == {None, Some(1)}

QueryFlows == {-1, 1, 2, 5}
QueryHeads == 0..MaxVal

x_ == Text(<<"x">>)
\* 'x' followed by U+00A0 (no-break space)
x_nbsp == Text(<<"x">>) \o <<160>>
Flow_ == Text(<<" ","F","l","o","w"," ">>)
q_ == Text(<<"q">>)
\* 'PH' U+0130 '_1': its lowercase is 'phi' U+0307 '_1', no 'phi_' column
PHI_dotted_1 == Text(<<"P","H">>) \o <<304>> \o Text(<<"_","1">>)
\* U+FF38 (fullwidth X): its lowercase U+FF58 is not 'x'
X_fullwidth == <<65336>>
phi_1 == Text(<<"p","h","i","_","1">>)
phi_2 == Text(<<"p","h","i","_","2">>)
PHI_2 == Text(<<"P","H","I","_","2">>)
phi_20 == Text(<<"p","h","i","_","2","0">>)
\* 'phi_' followed by the Persian digits U+06F2 U+06F0 (20)
phi_fa20 == PhiPrefix \o <<1778, 1776>>
phi_x == Text(<<"p","h","i","_","x">>)
phi_0 == Text(<<"p","h","i","_","0">>)
Phi_7mm == Text(<<"P","h","i","_","7","m","m">>)
eff_50 == Text(<<"e","f","f","_","5","0">>)
EFF_60_5 == Text(<<"E","F","F","_","6","0",".","5">>)
eff_70 == Text(<<"e","f","f","_","7","0">>)
\* 'eff_' followed by the Persian digits U+06F7 U+06F0 (70)
eff_fa70 == EffPrefix \o <<1783, 1776>>
eff_ == Text(<<"e","f","f","_">>)
p_0 == Text(<<"p","_","0">>)
p_1 == Text(<<"p","_","1">>)
P_1 == Text(<<"P","_","1">>)
p_01 == Text(<<"p","_","0","1">>)
p_2 == Text(<<"p","_","2">>)
p_7 == Text(<<"p","_","7">>)
\* 'P_20' between a tab and U+2003 (em space)
P_20 == <<9>> \o Text(<<"P","_","2","0">>) \o <<8195>>

\* two diameter curves sampled at flows 2 and 0 (unsorted), every cell free
DiameterHeaders == { <<x_, phi_1, PHI_2>>, <<Flow_, phi_20, phi_x>>,
                     <<x_, phi_0, Phi_7mm>>, <<q_, phi_1, phi_2>>,
                     <<x_nbsp, phi_fa20, phi_2>> }
DiameterTables ==
    { File(h, << <<Some(2), a1, b1>>, <<Some(0), a2, b2>> >>) :
        h \in DiameterHeaders, a1 \in Cells, a2 \in Cells, b1 \in Cells, b2 \in Cells }

\* three rows, one of them possibly without a flow
ThreeRowFlows == { <<Some(2), Some(4), Some(0)>>, <<Some(4), None, Some(0)>> }
ThreeRowTables ==
    { File(<<x_, phi_1, phi_2>>,
           << <<f[1], a1, b1>>, <<f[2], a2, b2>>, <<f[3], a3, b3>> >>) :
        f \in ThreeRowFlows, a1 \in EdgeCells, a2 \in EdgeCells, a3 \in EdgeCells,
        b1 \in EdgeCells, b2 \in EdgeCells, b3 \in EdgeCells }

\* one column that is or is not a diameter curve, and two efficiency curves
EfficiencyHeaders == { <<x_, phi_1, eff_50, EFF_60_5>>, <<x_, phi_x, eff_50, eff_70>>,
                       <<x_, phi_1, eff_, eff_70>>, <<x_, PHI_dotted_1, eff_50, eff_fa70>> }
EfficiencyTables ==
    { File(h, << <<Some(2), Some(1), a1, b1>>, <<Some(0), Some(1), a2, b2>>,
                 <<Some(4), Some(1), a3, b3>> >>) :
        h \in EfficiencyHeaders, a1 \in EffCells, a2 \in EffCells, a3 \in EffCells,
        b1 \in EffCells, b2 \in EffCells, b3 \in EffCells }

CurvesFiles == {MissingFile, MalformedFile} \cup DiameterTables \cup ThreeRowTables
               \cup EfficiencyTables

PowerHeaders == { <<x_, p_1, p_2>>, <<Flow_, P_20, p_2>>, <<x_, p_0, p_7>>,
                  <<q_, p_1, p_2>>, <<x_, p_01, P_1>> }
PowerTables ==
    { File(h, << <<Some(2), a1, Some(1)>>, <<Some(0), a2, Some(3)>> >>) :
        h \in PowerHeaders, a1 \in Cells, a2 \in Cells }
PowerFiles == {MissingFile, MalformedFile} \cup PowerTables

---------------------------------------------------------------------------
(* get_performance_details, step by step. *)

\* line 92: if len(points) >= 4
EnoughPoints(n) == n >= MinPooledPoints
\* the linear call made whatever the cubic call gave
NeedsLinear_Always(out) == TRUE

\* line 94: if np.isnan(est_eff): the linear call is made
NeedsLinear(out) == out.k = "nan"

PerfIdle ==
    /\ boundary_file = NoTable /\ pump_polygon = None /\ inside = FALSE
    /\ catalog = <<>> /\ idx = 0 /\ final_results = <<>>

InitPerf ==
    /\ pc = "start"
    /\ required_flow \in QueryFlows
    /\ required_head \in QueryHeads
    /\ df_curves = NoTable
    /\ flow_col_name = 0
    /\ results = NoResults
    /\ points = <<>>
    /\ est_eff = None
    /\ calls = <<>>
    /\ raised = {}
    /\ power_csv = NoTable
    /\ PerfIdle

\* lines 57-63: the file is looked up, read, its flow column found, the rows
\* without a flow dropped
ReadCurves ==
    /\ pc = "start"
    /\ \E file \in CurvesFiles :
         IF ~file.exists
         THEN /\ df_curves' = file /\ flow_col_name' = 0 /\ raised' = raised
              /\ pc' = "curves_done"
         ELSE IF ~file.parses
         THEN /\ df_curves' = file /\ flow_col_name' = 0
              /\ raised' = raised \cup {"read_csv"}
              /\ pc' = "curves_done"
         ELSE IF FlowColName(file.cols) = 0
         THEN /\ df_curves' = file /\ flow_col_name' = 0 /\ raised' = raised
              /\ pc' = "curves_done"
         ELSE /\ df_curves' = DropnaSubset(file, FlowColName(file.cols))
              /\ flow_col_name' = FlowColName(file.cols)
              /\ raised' = raised
              /\ pc' = "diameter"
    /\ UNCHANGED <<required_flow, required_head, results, points, est_eff, calls,
                   power_csv, boundary_file, pump_polygon, inside, catalog, idx,
                   final_results>>

\* lines 65-79; an exception goes to the except clause of line 97
DiameterStep ==
    /\ pc = "diameter"
    /\ LET r == SelectDiameter(df_curves, flow_col_name, required_flow, required_head)
       IN  IF r.raised
           THEN /\ raised' = raised \cup {"diameter"}
                /\ results' = results
                /\ pc' = "curves_done"
           ELSE /\ raised' = raised
                /\ results' = [results EXCEPT !.diameter = r.diameter]
                /\ pc' = "efficiency"
    /\ UNCHANGED <<required_flow, required_head, df_curves, flow_col_name, points,
                   est_eff, calls, power_csv, boundary_file, pump_polygon, inside,
                   catalog, idx, final_results>>

\* lines 82-92: the samples of the efficiency curves are pooled
PoolStep ==
    /\ pc = "efficiency"
    /\ IF EffCols(df_curves) = <<>>
       THEN /\ points' = points /\ raised' = raised /\ pc' = "curves_done"
       ELSE LET pool == Pooled(df_curves, flow_col_name)
            IN  IF pool.raised
                THEN /\ points' = pool.points
                     /\ raised' = raised \cup {"efficiency"}
                     /\ pc' = "curves_done"
                ELSE /\ points' = pool.points
                     /\ raised' = raised
                     /\ pc' = IF EnoughPoints(Len(pool.points)) THEN "cubic"
                              ELSE "curves_done"
    /\ UNCHANGED <<required_flow, required_head, df_curves, flow_col_name, results,
                   est_eff, calls, power_csv, boundary_file, pump_polygon, inside,
                   catalog, idx, final_results>>

\* line 93: griddata(..., method='cubic'), and lines 94-95 when it gave a value
GridCubic ==
    /\ pc = "cubic"
    /\ \E out \in GridOutcomes :
         /\ calls' = Append(calls, [method |-> "cubic", out |-> out])
         /\ est_eff' = Some(out)
         /\ IF out.k = "raise"
            THEN /\ raised' = raised \cup {"griddata"}
                 /\ results' = results
                 /\ pc' = "curves_done"
            ELSE IF NeedsLinear(out)
            THEN /\ raised' = raised /\ results' = results /\ pc' = "linear"
            ELSE /\ raised' = raised
                 /\ results' = [results EXCEPT !.efficiency = StoreEfficiency(out)]
                 /\ pc' = "curves_done"
    /\ UNCHANGED <<required_flow, required_head, df_curves, flow_col_name, points,
                   power_csv, boundary_file, pump_polygon, inside, catalog, idx,
                   final_results>>

\* line 94: griddata(..., method='linear'), and line 95
GridLinear ==
    /\ pc = "linear"
    /\ \E out \in GridOutcomes :
         /\ calls' = Append(calls, [method |-> "linear", out |-> out])
         /\ est_eff' = Some(out)
         /\ IF out.k = "raise"
            THEN /\ raised' = raised \cup {"griddata"} /\ results' = results
            ELSE /\ raised' = raised
                 /\ results' = [results EXCEPT !.efficiency = StoreEfficiency(out)]
         /\ pc' = "curves_done"
    /\ UNCHANGED <<required_flow, required_head, df_curves, flow_col_name, points,
                   power_csv, boundary_file, pump_polygon, inside, catalog, idx,
                   final_results>>

\* line 98/100: the block of Head_Efficiency.csv is left; its locals are dead
EndCurvesBlock ==
    /\ pc = "curves_done"
    /\ pc' = "power"
    /\ df_curves' = NoTable
    /\ flow_col_name' = 0
    /\ points' = <<>>
    /\ est_eff' = None
    /\ UNCHANGED <<required_flow, required_head, results, calls, raised, power_csv,
                   boundary_file, pump_polygon, inside, catalog, idx, final_results>>

\* the power block building a fresh results dict, the earlier fields lost
PowerStep_ResetsResults ==
    /\ pc = "power"
    /\ \E file \in PowerFiles :
         LET r == EstimatePower(results.diameter, file, required_flow)
         IN  /\ power_csv' = file
             /\ results' = [NoResults EXCEPT !.power = r.power]
             /\ raised' = IF r.raised THEN raised \cup {"power"} ELSE raised
    /\ pc' = "done"
    /\ UNCHANGED <<required_flow, required_head, df_curves, flow_col_name, points,
                   est_eff, calls, boundary_file, pump_polygon, inside, catalog, idx,
                   final_results>>

\* lines 101-120: the power block, and the return
PowerStep ==
    /\ pc = "power"
    /\ \E file \in PowerFiles :
         LET r == EstimatePower(results.diameter, file, required_flow)
         IN  /\ power_csv' = file
             /\ results' = [results EXCEPT !.power = r.power]
             /\ raised' = IF r.raised THEN raised \cup {"power"} ELSE raised
    /\ pc' = "done"
    /\ UNCHANGED <<required_flow, required_head, df_curves, flow_col_name, points,
                   est_eff, calls, boundary_file, pump_polygon, inside, catalog, idx,
                   final_results>>

NextPerf ==
    \/ ReadCurves
    \/ DiameterStep
    \/ PoolStep
    \/ GridCubic
    \/ GridLinear
    \/ EndCurvesBlock
    \/ PowerStep

SpecPerf == InitPerf /\ [][NextPerf]_vars

---------------------------------------------------------------------------
(* get_pump_boundary_polygon and contains_point, on boundary tables. *)

a_ == Text(<<"a">>)
b_ == Text(<<"b">>)
X_ == Text(<<"X">>)

BoundaryFlows == <<0, 2, 4>>
HeadPairs == (0..MaxVal) \X (0..MaxVal)

\* the first n rows of a table of three columns, every head free
BoundaryRows(n, hp) == [i \in 1..n |-> <<Some(BoundaryFlows[i]), Some(hp[i][1]), Some(hp[i][2])>>]
BoundaryHeaders == { <<x_, a_, b_>>, <<a_, x_, b_>>, <<X_, a_, b_>>, <<x_, X_, a_>>,
                     <<x_, X_fullwidth, a_>> }
BoundaryTables ==
    { File(h, BoundaryRows(n, hp)) :
        h \in BoundaryHeaders, n \in 0..Len(BoundaryFlows),
        hp \in [1..Len(BoundaryFlows) -> HeadPairs] }
\* an 'x' column and no curve column
BareTables == { File(<<x_, X_>>, << <<Some(0), Some(1)>>, <<Some(2), Some(1)>> >>),
                File(<<x_>>, << <<Some(0)>>, <<Some(2)>> >>) }
BoundaryFiles == {MissingFile, MalformedFile} \cup BoundaryTables \cup BareTables

BoundaryQueryFlows == {-1, 0, 1, 2, 3}

BoundaryIdle ==
    /\ df_curves = NoTable /\ flow_col_name = 0 /\ results = NoResults
    /\ points = <<>> /\ est_eff = None /\ calls = <<>> /\ raised = {}
    /\ power_csv = NoTable /\ catalog = <<>> /\ idx = 0 /\ final_results = <<>>

InitBoundary ==
    /\ pc = "boundary"
    /\ boundary_file \in BoundaryFiles
    /\ required_flow = 0
    /\ required_head = 0
    /\ pump_polygon = None
    /\ inside = FALSE
    /\ BoundaryIdle

\* line 131: pump_polygon = get_pump_boundary_polygon(pump_name, data_folder)
BuildPolygon ==
    /\ pc = "boundary"
    /\ LET r == GetPumpBoundaryPolygon(boundary_file)
       IN  /\ pump_polygon' = r.polygon
           /\ pc' = IF r.raised THEN "aborted" ELSE "built"
    /\ UNCHANGED <<required_flow, required_head, df_curves, flow_col_name, results,
                   points, est_eff, calls, raised, power_csv, boundary_file, inside,
                   catalog, idx, final_results>>

\* line 133: pump_polygon and pump_polygon.contains_point((flow, head))
TestPoint ==
    /\ pc = "built"
    /\ \E q \in BoundaryQueryFlows, h \in QueryHeads :
         /\ required_flow' = q
         /\ required_head' = h
         /\ inside' = Admissible(pump_polygon, q, h)
    /\ pc' = "tested"
    /\ UNCHANGED <<df_curves, flow_col_name, results, points, est_eff, calls, raised,
                   power_csv, boundary_file, pump_polygon, catalog, idx, final_results>>

NextBoundary ==
    \/ BuildPolygon
    \/ TestPoint

SpecBoundary == InitBoundary /\ [][NextBoundary]_vars

---------------------------------------------------------------------------
(* find_suitable_pumps (src/project.py 123-150) over a catalog of pumps. *)

\* {"pump": pump_name, **details}
Entry(name, details) ==
    [pump |-> name, diameter |-> details.diameter,
     efficiency |-> details.efficiency, power |-> details.power]

Nan == [k |-> "nan"]

\* What griddata answered for a pump, read from a log cs of its calls (each
\* call [pump, method, out]); nan for a call that was not made.
AnswerOf(cs, name, method) ==
    LET ks == {k \in 1..Len(cs) : cs[k].pump = name /\ cs[k].method = method}
    IN  IF ks = {} THEN Nan ELSE cs[CHOOSE k \in ks : TRUE].out

\* lines 92-94: the griddata calls get_performance_details makes on a file
CurvesBlockCalls(file, q, h, cubic, linear) ==
    IF ~file.exists \/ ~file.parses \/ FlowColName(file.cols) = 0 THEN <<>>
    ELSE LET fc  == FlowColName(file.cols)
             df  == DropnaSubset(file, fc)
         IN  IF SelectDiameter(df, fc, q, h).raised THEN <<>>
             ELSE EstimateEfficiency(df, fc, cubic, linear).calls

\* What griddata answers in a scan: nan, an exception, or a value, here one of
\* the efficiencies 50 and 60.5 of the curves of the sample pumps.
ScanGridOutcomes ==
    {[k |-> "nan"], [k |-> "raise"]} \cup {[k |-> "val", v |-> v] : v \in {Rat(50, 1), Rat(121, 2)}}

\* line 92 is passed: get_performance_details calls griddata on the file
ReachesGriddata(file, q, h) == CurvesBlockCalls(file, q, h, Nan, Nan) # <<>>

\* The envelope (0,1) (2,4) (4,1) / (4,0) (2,1) (0,0).
GoodBoundary ==
    File(<<x_, a_, b_>>, << <<Some(0), Some(1), Some(0)>>, <<Some(2), Some(1), Some(4)>>,
                            <<Some(4), Some(0), Some(1)>> >>)
\* The envelope (0,3) (2,3) / (2,0) (0,0).
BoxBoundary ==
    File(<<x_, a_>> \o <<b_>>, << <<Some(0), Some(3), Some(0)>>, <<Some(2), Some(0), Some(3)>> >>)
NoXBoundary ==
    File(<<X_, a_, b_>>, << <<Some(0), Some(1), Some(0)>>, <<Some(2), Some(1), Some(4)>>,
                            <<Some(4), Some(0), Some(1)>> >>)
OneRowBoundary == File(<<x_, a_, b_>>, << <<Some(2), Some(0), Some(4)>> >>)

GoodCurves ==
    File(<<x_, phi_1, PHI_2, eff_50, EFF_60_5>>,
         << <<Some(2), Some(2), Some(3), Some(1), Some(2)>>,
            <<Some(0), Some(4), Some(5), Some(3), Some(4)>>,
            <<Some(4), Some(0), Some(1), None, Some(0)>> >>)
BadTagCurves ==
    File(<<x_, phi_x, phi_1, eff_50, eff_70>>,
         << <<Some(2), Some(2), Some(3), Some(1), Some(2)>>,
            <<Some(0), Some(4), Some(5), Some(3), Some(4)>> >>)
GoodPower ==
    File(<<Flow_, p_1, p_2>>, << <<Some(0), Some(1), Some(2)>>, <<Some(2), Some(2), Some(5)>> >>)

\* A pump of the catalog: its directory name, its Pump_boundary.csv under
\* data_folder, and its Head_Efficiency.csv and Power.csv under PUMP_DATA_FOLDER.
Pump(name, boundary, curves, power) ==
    [pump |-> name, boundary |-> boundary, curves |-> curves, power |-> power]

PumpSamples ==
    { Pump("good", GoodBoundary, GoodCurves, GoodPower),
      Pump("box", BoxBoundary, GoodCurves, MalformedFile),
      Pump("no_boundary", MissingFile, GoodCurves, GoodPower),
      Pump("bad_boundary", MalformedFile, GoodCurves, GoodPower),
      Pump("no_x", NoXBoundary, GoodCurves, GoodPower),
      Pump("one_row", OneRowBoundary, GoodCurves, GoodPower),
      Pump("bad_tag", GoodBoundary, BadTagCurves, GoodPower),
      Pump("no_curves", BoxBoundary, MissingFile, MissingFile),
      Pump("bad_curves", GoodBoundary, MalformedFile, GoodPower) }

\* the files of the pump directory of that name
Disk(name) == CHOOSE p \in PumpSamples : p.pump = name

\* find_available_pumps: the names of the directories of the data folder, in
\* the order os.listdir gives them (any order, no name twice; empty when there
\* is no folder)
PumpDirs == {p.pump : p \in PumpSamples}
Catalogs ==
    UNION { { c \in [1..n -> PumpDirs] : \A i, j \in 1..n : i # j => c[i] # c[j] } :
            n \in 0..MaxPumps }

\* the body of the loop for one pump: what it appends to final_results, when
\* griddata answers as in cs
PumpEntries(pump_name, q, h, cs) ==
    LET p == Disk(pump_name)
    IN  IF Admissible(GetPumpBoundaryPolygon(p.boundary).polygon, q, h)
        THEN <<Entry(pump_name, GetPerformanceDetails(p.curves, p.power, q, h,
                                                      AnswerOf(cs, pump_name, "cubic"),
                                                      AnswerOf(cs, pump_name, "linear")))>>
        ELSE <<>>

\* find_suitable_pumps as one function: the returned list
RECURSIVE FindSuitablePumps(_, _, _, _)
FindSuitablePumps(pumps, q, h, cs) ==
    IF pumps = <<>> THEN <<>>
    ELSE PumpEntries(Head(pumps), q, h, cs) \o FindSuitablePumps(Tail(pumps), q, h, cs)

ScanFlows == {1, 2, 5}
ScanHeads == {0, 2}

ScanIdle ==
    /\ df_curves = NoTable /\ flow_col_name = 0 /\ points = <<>> /\ est_eff = None
    /\ raised = {} /\ power_csv = NoTable /\ boundary_file = NoTable

InitScan ==
    /\ pc = "scan"
    /\ catalog \in Catalogs
    /\ required_flow \in ScanFlows
    /\ required_head \in ScanHeads
    /\ idx = 1
    /\ final_results = <<>>
    /\ pump_polygon = None
    /\ inside = FALSE
    /\ results = NoResults
    /\ calls = <<>>
    /\ ScanIdle

\* line 131: pump_polygon = get_pump_boundary_polygon(pump_name, data_folder);
\* an exception leaving the callee would leave find_suitable_pumps too
ScanPolygon ==
    /\ pc = "scan"
    /\ idx <= Len(catalog)
    /\ LET r == GetPumpBoundaryPolygon(Disk(catalog[idx]).boundary)
       IN  IF r.raised
           THEN pc' = "aborted" /\ pump_polygon' = pump_polygon
           ELSE pc' = "scan_test" /\ pump_polygon' = r.polygon
    /\ UNCHANGED <<required_flow, required_head, df_curves, flow_col_name, results,
                   points, est_eff, calls, raised, power_csv, boundary_file, inside,
                   catalog, idx, final_results>>

\* line 133: if pump_polygon and pump_polygon.contains_point(...): the pump is
\* evaluated, else the loop goes to the next pump
ScanTest ==
    /\ pc = "scan_test"
    /\ inside' = Admissible(pump_polygon, required_flow, required_head)
    /\ IF inside' THEN pc' = "scan_curves" /\ idx' = idx
                  ELSE pc' = "scan" /\ idx' = idx + 1
    /\ UNCHANGED <<required_flow, required_head, df_curves, flow_col_name, results,
                   points, est_eff, calls, raised, power_csv, boundary_file,
                   pump_polygon, catalog, final_results>>

\* results kept from one call to the next (one dict made once), each field
\* written only where the code assigns it
ScanCurves_SharedResults ==
    /\ pc = "scan_curves"
    /\ \E cubic \in (IF ReachesGriddata(Disk(catalog[idx]).curves, required_flow,
                                       required_head)
                     THEN ScanGridOutcomes ELSE {Nan}) :
       \E linear \in (IF NeedsLinear(cubic) THEN ScanGridOutcomes ELSE {Nan}) :
         LET p == Disk(catalog[idx])
             made == CurvesBlockCalls(p.curves, required_flow, required_head, cubic, linear)
             r == CurvesBlock(p.curves, required_flow, required_head, cubic, linear)
         IN  /\ results' =
                    [results EXCEPT
                        !.diameter = IF IsNone(r.diameter) THEN @ ELSE r.diameter,
                        !.efficiency = IF IsNone(r.efficiency) THEN @ ELSE r.efficiency]
             /\ calls' = calls \o
                    [k \in 1..Len(made) |->
                        [pump |-> p.pump, method |-> made[k],
                         out |-> IF made[k] = "cubic" THEN cubic ELSE linear]]
    /\ pc' = "scan_power"
    /\ UNCHANGED <<required_flow, required_head, df_curves, flow_col_name, points,
                   est_eff, raised, power_csv, boundary_file, pump_polygon, inside,
                   catalog, idx, final_results>>

\* line 135 into lines 52-98: results starts afresh and the Head_Efficiency.csv
\* of the pump sets diameter and efficiency; griddata answers what it answers
\* (an answer matters only for a call that is made: the cubic one when the
\* estimation gets to line 93, the linear one after a cubic nan)
ScanCurves ==
    /\ pc = "scan_curves"
    /\ \E cubic \in (IF ReachesGriddata(Disk(catalog[idx]).curves, required_flow,
                                       required_head)
                     THEN ScanGridOutcomes ELSE {Nan}) :
       \E linear \in (IF NeedsLinear(cubic) THEN ScanGridOutcomes ELSE {Nan}) :
         LET p == Disk(catalog[idx])
             made == CurvesBlockCalls(p.curves, required_flow, required_head, cubic, linear)
         IN  /\ results' = CurvesBlock(p.curves, required_flow, required_head, cubic, linear)
             /\ calls' = calls \o
                    [k \in 1..Len(made) |->
                        [pump |-> p.pump, method |-> made[k],
                         out |-> IF made[k] = "cubic" THEN cubic ELSE linear]]
    /\ pc' = "scan_power"
    /\ UNCHANGED <<required_flow, required_head, df_curves, flow_col_name, points,
                   est_eff, raised, power_csv, boundary_file, pump_polygon, inside,
                   catalog, idx, final_results>>

\* lines 101-120: the Power.csv of the pump sets power, and results is returned
ScanPower ==
    /\ pc = "scan_power"
    /\ results' = [results EXCEPT !.power =
                      EstimatePower(results.diameter, Disk(catalog[idx]).power,
                                    required_flow).power]
    /\ pc' = "scan_append"
    /\ UNCHANGED <<required_flow, required_head, df_curves, flow_col_name, points,
                   est_eff, calls, raised, power_csv, boundary_file, pump_polygon,
                   inside, catalog, idx, final_results>>

\* line 136: final_results.append({"pump": pump_name, **details})
ScanAppend ==
    /\ pc = "scan_append"
    /\ final_results' = Append(final_results, Entry(catalog[idx], results))
    /\ idx' = idx + 1
    /\ pc' = "scan"
    /\ UNCHANGED <<required_flow, required_head, df_curves, flow_col_name, results,
                   points, est_eff, calls, raised, power_csv, boundary_file,
                   pump_polygon, inside, catalog>>

\* line 150: return final_results
ReturnResults ==
    /\ pc = "scan"
    /\ idx > Len(catalog)
    /\ pc' = "returned"
    /\ UNCHANGED <<required_flow, required_head, df_curves, flow_col_name, results,
                   points, est_eff, calls, raised, power_csv, boundary_file,
                   pump_polygon, inside, catalog, idx, final_results>>

NextScan ==
    \/ ScanPolygon
    \/ ScanTest
    \/ ScanCurves
    \/ ScanPower
    \/ ScanAppend
    \/ ReturnResults

SpecScan == InitScan /\ [][NextScan]_vars

---------------------------------------------------------------------------
(* Everything together. *)

Init == InitPerf \/ InitBoundary \/ InitScan
Next == NextPerf \/ NextBoundary \/ NextScan
Spec == Init /\ [][Next]_vars

---------------------------------------------------------------------------
(* Vocabulary of the claims about get_performance_details. *)

\* the Head_Efficiency table is in scope and diameter selection is over
DiameterDecided ==
    /\ pc \in {"efficiency", "cubic", "linear", "curves_done"}
    /\ flow_col_name # 0

\* the diameter tag of a column: None when its name holds no digit
TagOf(name) == IF IsNone(SearchDigits(name)) THEN None ELSE Some(ParseInt(Get(SearchDigits(name))))

\* the phi_ columns with at least 2 samples whose head at the requested flow is
\* at least the requested head
Candidates ==
    { c \in Range(PhiCols(df_curves)) :
        /\ Len(CurveDf(df_curves, flow_col_name, c)) >= 2
        /\ RatGeq(HeadOnCurve(df_curves, flow_col_name, c, required_flow),
                  Rat(required_head, 1)) }

\* head_on_curve - required_head of a column
DistanceOf(c) ==
    RatSub(HeadOnCurve(df_curves, flow_col_name, c, required_flow), Rat(required_head, 1))

\* the candidates no other candidate is strictly closer than
Closest == { c \in Candidates : \A e \in Candidates : ~RatLess(DistanceOf(e), DistanceOf(c)) }

\* every candidate's name holds a number
TagsParse == \A c \in Candidates : ~IsNone(TagOf(df_curves.cols[c]))

---------------------------------------------------------------------------
(* C1 *)

\* C1: in every record of get_performance_details, a power that is not None
\* comes with a diameter that is not None.
C1_PowerNeedsDiameter == ~IsNone(results.power) => ~IsNone(results.diameter)

\* a power was estimated
C1_Witness == pc = "done" /\ ~IsNone(results.power)

---------------------------------------------------------------------------
(* C2 *)

\* C2: whenever a diameter is selected, some phi_ column with at least 2 samples
\* carries that diameter tag and its interpolated head at the requested flow is
\* at least the requested head.
C2_SelectedCurveMeetsHead ==
    (DiameterDecided /\ ~IsNone(results.diameter)) =>
        \E c \in Range(PhiCols(df_curves)) :
            /\ Len(CurveDf(df_curves, flow_col_name, c)) >= 2
            /\ TagOf(df_curves.cols[c]) = results.diameter
            /\ RatGeq(HeadOnCurve(df_curves, flow_col_name, c, required_flow),
                      Rat(required_head, 1))

\* a diameter was selected while another curve stayed below the requested head
C2_Witness ==
    /\ DiameterDecided
    /\ ~IsNone(results.diameter)
    /\ \E c \in Range(PhiCols(df_curves)) :
          /\ Len(CurveDf(df_curves, flow_col_name, c)) >= 2
          /\ c \notin Candidates

---------------------------------------------------------------------------
(* C3 *)

\* C3: the selected diameter is that of a candidate no other candidate is
\* strictly closer than, and the diameter is None exactly when there is no
\* candidate.
C3_ClosestCandidateSelected ==
    DiameterDecided =>
        /\ IsNone(results.diameter) <=> Candidates = {}
        /\ ~IsNone(results.diameter) =>
              \E c \in Closest : TagOf(df_curves.cols[c]) = results.diameter

\* what holds of the code: the same, for tables whose candidates all carry a number
C3_WhenTagsParse == (DiameterDecided /\ TagsParse) => C3_ClosestCandidateSelected

---------------------------------------------------------------------------
(* C4 *)

\* the efficiency curves alone suffice for griddata to be asked
EfficiencyCurvesUsable ==
    /\ EffCols(df_curves) # <<>>
    /\ ~Pooled(df_curves, flow_col_name).raised
    /\ EnoughPoints(Len(Pooled(df_curves, flow_col_name).points))

\* C4: each failure is local.  A failure inside diameter selection does not
\* block efficiency estimation: whenever the efficiency curves alone suffice,
\* the efficiency is estimated.  A failure inside efficiency estimation does
\* not discard the diameter already selected.
C4_FailuresAreLocal ==
    (pc = "curves_done" /\ flow_col_name # 0) =>
        /\ ("diameter" \in raised /\ EfficiencyCurvesUsable) => calls # <<>>
        /\ (raised \cap {"efficiency", "griddata"} # {}) =>
              results.diameter =
                 SelectDiameter(df_curves, flow_col_name, required_flow, required_head).diameter

\* the half that holds of the code: a failure of efficiency estimation leaves
\* the selected diameter in place
C4_EfficiencyFailureKeepsDiameter ==
    (pc = "curves_done" /\ flow_col_name # 0 /\ raised \cap {"efficiency", "griddata"} # {}) =>
        results.diameter =
           SelectDiameter(df_curves, flow_col_name, required_flow, required_head).diameter

---------------------------------------------------------------------------
(* C7 *)

\* the power table has a flow column and a column p_<d> with at least 2 samples
PowerCurveReady(file, d) ==
    /\ file.exists /\ file.parses
    /\ FlowColName(file.cols) # 0
    /\ \E c \in 1..Len(file.cols) :
          /\ Lower(Strip(file.cols[c])) = PowerPrefix \o IntToStr(d)
          /\ c = TargetPowerCol(file.cols, d)
          /\ Len(CurveDf(file, FlowColName(file.cols), c)) >= 2

\* the power table is read, and no column p_<d> of it has 2 samples
PowerCurveLacking(file, d) ==
    /\ file.exists /\ file.parses
    /\ \/ TargetPowerCol(file.cols, d) = 0
       \/ FlowColName(file.cols) # 0 /\
          Len(CurveDf(file, FlowColName(file.cols), TargetPowerCol(file.cols, d))) < 2

\* C7: with a diameter d selected (0 included), the power is determined when
\* the power table has a flow column and a column p_<d> with at least 2
\* samples, and is None when no column is p_<d> or it has fewer than 2 samples.
C7_PowerFollowsDiameter ==
    (pc = "done" /\ ~IsNone(results.diameter)) =>
        /\ PowerCurveReady(power_csv, Get(results.diameter)) => ~IsNone(results.power)
        /\ PowerCurveLacking(power_csv, Get(results.diameter)) => IsNone(results.power)

\* what holds of the code: the same for every diameter but 0
C7_ForNonzeroDiameter ==
    (pc = "done" /\ Truthy(results.diameter)) =>
        /\ PowerCurveReady(power_csv, Get(results.diameter)) => ~IsNone(results.power)
        /\ PowerCurveLacking(power_csv, Get(results.diameter)) => IsNone(results.power)

---------------------------------------------------------------------------
(* C9 *)

Methods(cs) == [i \in 1..Len(cs) |-> cs[i].method]

\* C9: the efficiency follows an ordered fallback.  griddata is asked only
\* with at least 4 pooled points, and then the cubic method first; a value of
\* the cubic call is the result and ends the estimation; the linear method is
\* asked only after the cubic call gave no value; and the efficiency is None
\* exactly when no call gave a value.
C9_CubicThenLinear ==
    /\ Methods(calls) \in {<<>>, <<"cubic">>, <<"cubic", "linear">>}
    /\ Len(calls) = 2 => calls[1].out.k = "nan"
    /\ (calls # <<>> /\ calls[1].out.k = "val") =>
          results.efficiency = Some(Round2(calls[1].out.v))
    /\ (Len(calls) = 2 /\ calls[2].out.k = "val" /\ pc # "linear") =>
          results.efficiency = Some(Round2(calls[2].out.v))
    /\ (pc \in {"cubic", "linear", "curves_done"} /\ calls # <<>>) => Len(points) >= 4
    /\ (pc = "curves_done" /\ Len(points) < 4) => (calls = <<>> /\ IsNone(results.efficiency))
    /\ (pc = "curves_done" /\ Len(points) >= 4 /\ "efficiency" \notin raised) => calls # <<>>
    /\ (pc \notin {"cubic", "linear"}) =>
          (IsNone(results.efficiency) <=> \A i \in 1..Len(calls) : calls[i].out.k # "val")

\* the cubic call gave no value and the linear call gave the result
C9_Witness ==
    /\ pc = "curves_done"
    /\ Len(calls) = 2
    /\ calls[2].out.k = "val"
    /\ ~IsNone(results.efficiency)

---------------------------------------------------------------------------
(* C10 *)

\* C10: when two or more candidates share the least distance, the diameter is
\* that of the one whose column comes first in the table.
C10_FirstOfTiedCandidates ==
    (DiameterDecided /\ Cardinality(Closest) >= 2) =>
        results.diameter =
            TagOf(df_curves.cols[CHOOSE c \in Closest : \A e \in Closest : c <= e])

\* what holds of the code: the same, for tables whose candidates all carry a number
C10_WhenTagsParse == (DiameterDecided /\ TagsParse) => C10_FirstOfTiedCandidates

---------------------------------------------------------------------------
(* C5 *)

\* the pump has a boundary polygon and the polygon contains the requested point
HasPointInside(pump_name) ==
    LET polygon == GetPumpBoundaryPolygon(Disk(pump_name).boundary).polygon
    IN  /\ ~IsNone(polygon)
        /\ ContainsPoint(Get(polygon), required_flow, required_head)

PumpNames(entries) == [i \in 1..Len(entries) |-> entries[i].pump]

\* the positions of find_suitable_pumps
ScanPositions == {"scan", "scan_test", "scan_curves", "scan_power", "scan_append", "returned"}

\* C5: the returned list holds exactly one entry for each pump whose boundary
\* polygon exists and contains the requested point, none for any other pump,
\* in the order of the catalog (and so does the list built so far, for the
\* pumps already evaluated).
C5_EntriesAreTheAdmissiblePumps ==
    pc \in ScanPositions =>
        PumpNames(final_results) =
            SelectSeq(SubSeq(catalog, 1, idx - 1), HasPointInside)

\* a scan that returned one pump and skipped another
C5_Witness ==
    /\ pc = "returned"
    /\ Len(catalog) = 2
    /\ Len(final_results) = 1
    /\ final_results[1].pump = catalog[2]

---------------------------------------------------------------------------
(* C6 *)

HasBadTag(file, prefix) ==
    /\ file.exists /\ file.parses
    /\ \E i \in 1..Len(file.cols) :
          StartsWith(Lower(file.cols[i]), prefix) /\ IsNone(SearchDigits(file.cols[i]))

\* the pump's data has a defect: a file is missing or malformed, the boundary
\* has no 'x' column, or a column tag holds no number
Defective(p) ==
    \/ ~p.boundary.exists \/ ~p.boundary.parses
    \/ \A i \in 1..Len(p.boundary.cols) : p.boundary.cols[i] # XName
    \/ ~p.curves.exists \/ ~p.curves.parses
    \/ ~p.power.exists \/ ~p.power.parses
    \/ HasBadTag(p.curves, PhiPrefix)
    \/ HasBadTag(p.curves, EffPrefix)

Without(seq, i) == SubSeq(seq, 1, i - 1) \o SubSeq(seq, i + 1, Len(seq))

\* C6: no defect of a pump's data aborts the scan: the loop goes through the
\* whole catalog and returns, and the entries of the other pumps are those of
\* the scan of the catalog without the defective pump (griddata answering on
\* each pump's samples what it answered in this scan).
C6_DefectsAreIsolated ==
    /\ pc \in ScanPositions
    /\ idx \in 1..(Len(catalog) + 1)
    /\ pc = "returned" =>
          /\ idx = Len(catalog) + 1
          /\ \A i \in 1..Len(catalog) :
                Defective(Disk(catalog[i])) =>
                    SelectSeq(final_results, LAMBDA e : e.pump # catalog[i]) =
                        FindSuitablePumps(Without(catalog, i), required_flow,
                                          required_head, calls)

\* a scan that returned after a pump with a malformed Head_Efficiency.csv,
\* which has an entry without estimates, with the entry of a sound pump whose
\* efficiency griddata gave
C6_Witness ==
    /\ pc = "returned"
    /\ Len(catalog) = 2
    /\ Disk(catalog[1]).curves.exists /\ ~Disk(catalog[1]).curves.parses
    /\ ~Defective(Disk(catalog[2]))
    /\ Len(final_results) = 2
    /\ final_results[1] = Entry(catalog[1], NoResults)
    /\ final_results[2].pump = catalog[2]
    /\ final_results[2].diameter # None
    /\ final_results[2].efficiency # None
    /\ final_results[2].power # None

---------------------------------------------------------------------------
(* C8 *)

\* the columns of the boundary table other than 'x' (in any case)
HeadCols == {c \in 1..Len(boundary_file.cols) : Lower(boundary_file.cols[c]) # XName}
XCol == CHOOSE c \in 1..Len(boundary_file.cols) : boundary_file.cols[c] = XName

\* the boundary table was read and has an 'x' column and a head column
BoundaryUsable ==
    /\ pc \in {"built", "tested"}
    /\ boundary_file.exists /\ boundary_file.parses
    /\ \E c \in 1..Len(boundary_file.cols) : boundary_file.cols[c] = XName
    /\ HeadCols # {}

IsRowMax(v, row) == (\E c \in HeadCols : Get(row[c]) = v) /\ (\A c \in HeadCols : Get(row[c]) <= v)
IsRowMin(v, row) == (\E c \in HeadCols : Get(row[c]) = v) /\ (\A c \in HeadCols : Get(row[c]) >= v)

\* C8: for a boundary table of n rows with an 'x' column and a head column,
\* the polygon is None exactly when 2n < 3; otherwise it has 2n vertices,
\* vertex k is (flow, largest head) of row k, vertex 2n+1-k is (flow, smallest
\* head) of row k, so the two share the flow and the upper head is at least
\* the lower one.
C8_PolygonVertices ==
    BoundaryUsable =>
        LET n == Len(boundary_file.rows)
        IN  /\ IsNone(pump_polygon) <=> 2 * n < 3
            /\ ~IsNone(pump_polygon) =>
                  LET v == Get(pump_polygon)
                  IN  /\ Len(v) = 2 * n
                      /\ \A k \in 1..n :
                            /\ v[k][1] = Get(boundary_file.rows[k][XCol])
                            /\ IsRowMax(v[k][2], boundary_file.rows[k])
                            /\ v[2 * n + 1 - k][1] = v[k][1]
                            /\ IsRowMin(v[2 * n + 1 - k][2], boundary_file.rows[k])
                            /\ v[k][2] >= v[2 * n + 1 - k][2]

\* a polygon of six vertices whose first row's heads differ from its last row's
C8_Witness ==
    /\ BoundaryUsable
    /\ ~IsNone(pump_polygon)
    /\ Len(Get(pump_polygon)) = 6
    /\ Get(pump_polygon)[1][2] > Get(pump_polygon)[6][2]
    /\ Get(pump_polygon)[1] # Get(pump_polygon)[3]

===========================================================================
